---- MODULE Spec2Model ----
(***************************************************************************)
(* Model of lutris/gui/application.py: the Application object of the       *)
(* Lutris client.  The state is the Application's fields (running_games,   *)
(* app_windows, window, run_in_background), the window instances GTK has   *)
(* built for it, and a record of the last handler invocation (its inputs,  *)
(* its return value and the calls it made to collaborators, in order).     *)
(* Every handler runs to completion on the GTK main thread, so each        *)
(* handler is one action.                                                  *)
(***************************************************************************)
EXTENDS Integers, Sequences, FiniteSets, TLC

VARIABLES
    running_games,      \* self.running_games: Gio.ListStore of Game, as a sequence
    app_windows,        \* self.app_windows: dict window_key -> window instance
    window,             \* self.window is not None (the LutrisWindow exists)
    window_visible,     \* self.window.is_visible()
    run_in_background,  \* self.run_in_background
    instances,          \* every window instance built by show_window, by handle
    app_state,          \* "running", "quit" (self.quit()) or "shutdown" (do_shutdown)
    active,             \* history: ids with a completed start and no completed stop since
    pending,            \* the command line sent to the primary instance, not yet handled
    call                \* the last event: a handler invocation, or a command line arriving

vars == <<running_games, app_windows, window, window_visible, run_in_background,
          instances, app_state, active, pending, call>>

----------------------------------------------------------------------------
(* Bounds of the model *)

\* on_game_start is not taken once running_games holds this many entries
MaxRunning == 2

\* show_window builds no instance once this many have been built
MaxWindows == 3

----------------------------------------------------------------------------
(* Values *)

Range(s) == {s[i] : i \in DOMAIN s}

Digit(d) == <<"0", "1", "2", "3", "4", "5", "6", "7", "8", "9">>[d + 1]

\* Python's str() of a non-negative integer, as a sequence of characters
RECURSIVE Str(_)
Str(n) == IF n < 10 THEN <<Digit(n)>> ELSE Str(n \div 10) \o <<Digit(n % 10)>>

\* Game objects: obj is the Python object, id its id attribute.  Two
\* distinct objects may carry the same id (Game(id) is built per launch).
Games == {[obj |-> 1, id |-> 1], [obj |-> 2, id |-> 1], [obj |-> 3, id |-> 12]}

NoGame == [obj |-> 0, id |-> 0]

GameIds == {g.id : g \in Games}

\* A database row as games_db.get_game_by_field returns it; found = FALSE is
\* the empty result, which is falsy in Python.
NoRow == [found |-> FALSE, id |-> 0, installed |-> FALSE]

NoInput == [flags |-> {}, uri |-> "none", action |-> "", game_slug |-> "",
            service |-> "", file |-> "none", by_id |-> NoRow, by_slug |-> NoRow,
            by_installer_slug |-> NoRow, dialog |-> "none",
            service_game |-> FALSE, installers |-> <<>>,
            service_install |-> "none"]

\* no command line is waiting to be handled
NoCommandLine == [present |-> FALSE, flags |-> {}, uri |-> "none", action |-> "",
                  game_slug |-> "", service |-> ""]

NoCall == [op |-> "none", game |-> NoGame, hide |-> FALSE, input |-> NoInput,
           ret |-> "none", handle |-> 0, constructed |-> FALSE, key |-> <<>>,
           cls |-> <<>>, derived |-> <<>>,
           kwargs |-> [appid |-> <<>>, runner |-> [present |-> FALSE, name |-> <<>>],
                       installers |-> <<>>, game |-> NoGame, service |-> <<>>],
           action |-> "", db_game |-> NoRow, seen |-> <<>>, trace |-> <<>>]

----------------------------------------------------------------------------
(* Initial state: Application.__init__ *)

Init ==
    /\ running_games = <<>>
    /\ app_windows = [k \in {} |-> 0]
    /\ window = FALSE
    /\ window_visible = FALSE
    /\ run_in_background = FALSE
    /\ instances = <<>>
    /\ app_state = "running"
    /\ active = {}
    /\ pending = NoCommandLine
    /\ call = NoCall

----------------------------------------------------------------------------
(* Game lifecycle *)

\* get_running_game_ids: the str() of every running game's id, in list order
get_running_game_ids(games) == [i \in 1..Len(games) |-> Str(games[i].id)]

\* list.index: the first position holding x
Index(s, x) == CHOOSE i \in 1..Len(s) : s[i] = x /\ \A j \in 1..(i - 1) : s[j] # x

\* Gio.ListStore.remove(position)
RemoveAt(s, p) == [i \in 1..(Len(s) - 1) |-> IF i < p THEN s[i] ELSE s[i + 1]]

\* self.running_games.append(game) in on_game_start
StartAppend(games, game) == Append(games, game)

\* on_game_start(game); hide is read_setting("hide_client_on_game_start") == "True"
on_game_start(game, hide) ==
    /\ app_state = "running"
    /\ window
    /\ Len(running_games) < MaxRunning
    /\ running_games' = StartAppend(running_games, game)
    /\ window_visible' = IF hide THEN FALSE ELSE window_visible
    /\ active' = active \cup {game.id}
    /\ call' = [NoCall EXCEPT !.op = "on_game_start", !.game = game, !.hide = hide,
                              !.ret = "True",
                              !.trace = IF hide THEN <<"window.hide">> ELSE <<>>]
    /\ UNCHANGED <<app_windows, window, run_in_background, instances, app_state, pending>>

\* StopRemove with the membership test dropped: an absent id removes the
\* first entry
StopRemove_NoMembershipTest(games, game) ==
    LET ids == get_running_game_ids(games)
    IN  IF Str(game.id) \in Range(ids)
        THEN RemoveAt(games, Index(ids, Str(game.id)))
        ELSE IF Len(games) > 0 THEN RemoveAt(games, 1) ELSE games

\* the running games after the removal step of on_game_stop
StopRemove(games, game) ==
    LET ids == get_running_game_ids(games)
    IN  IF Str(game.id) \in Range(ids)
        THEN RemoveAt(games, Index(ids, Str(game.id)))
        ELSE games

\* the ids a listener would read with "game-stopped" emitted before the
\* removal
StoppedSeen_BeforeRemoval(games, game) == get_running_game_ids(games)

\* get_running_game_ids() as a listener of "game-stopped" reads it: the
\* signal is emitted after the removal step
StoppedSeen(games, game) == get_running_game_ids(StopRemove(games, game))

\* the quit test of on_game_stop without the test of the remaining games
StopQuits_IgnoresRemaining(hide, visible, after) == ~hide /\ ~visible

\* lines 561 to 565: self.quit() is reached when the hide setting is not
\* "True", the main window is not visible and no running game remains
StopQuits(hide, visible, after) == ~hide /\ ~visible /\ Len(after) = 0

\* on_game_stop(game)
on_game_stop(game, hide) ==
    /\ app_state = "running"
    /\ window
    /\ LET ids == get_running_game_ids(running_games)
           known == Str(game.id) \in Range(ids)
           after == StopRemove(running_games, game)
           quits == StopQuits(hide, window_visible, after)
       IN  /\ running_games' = after
           /\ window_visible' = IF hide THEN TRUE ELSE window_visible
           /\ app_state' = IF quits THEN "quit" ELSE app_state
           /\ active' = active \ {game.id}
           /\ call' = [NoCall EXCEPT
                  !.op = "on_game_stop", !.game = game, !.hide = hide,
                  !.ret = "True",
                  !.seen = StoppedSeen(running_games, game),
                  !.trace = (IF known THEN <<"remove">> ELSE <<"warning">>)
                            \o <<"emit game-stopped">>
                            \o (IF hide THEN <<"window.show">>
                                ELSE IF quits THEN <<"quit">> ELSE <<>>)]
    /\ UNCHANGED <<app_windows, window, run_in_background, instances, pending>>


----------------------------------------------------------------------------
(* Window registry *)

\* Window classes: name is window_class.__name__ as a sequence of
\* characters, dialog is issubclass(window_class, Gtk.Dialog).
InstallerWindow == [name |-> <<"InstallerWindow">>, dialog |-> FALSE]

WindowClasses ==
    {[name |-> <<"Dialog">>, dialog |-> TRUE],
     [name |-> <<"Dialog", "X">>, dialog |-> FALSE]}

NoRunner == [present |-> FALSE, name |-> <<>>]

\* The keyword arguments of a show_window call.  An argument that is
\* absent, None or empty is falsy for kwargs.get: <<>> for strings and
\* lists, present = FALSE for a runner, NoGame for a game.
NoKwargs == [appid |-> <<>>, runner |-> NoRunner, installers |-> <<>>,
             game |-> NoGame, service |-> <<>>]

\* str(kwargs): the printed form of the dict, which tells apart calls that
\* differ in an argument get_window_key does not look at
StrKwargs(kwargs) == <<"{">> \o kwargs.service \o <<"}">>

\* get_window_key looking at the runner before the appid
get_window_key_RunnerFirst(kwargs) ==
    IF kwargs.runner.present THEN kwargs.runner.name
    ELSE IF kwargs.appid # <<>> THEN kwargs.appid
    ELSE IF kwargs.installers # <<>> THEN kwargs.installers[1].game_slug
    ELSE IF kwargs.game # NoGame THEN Str(kwargs.game.id)
    ELSE StrKwargs(kwargs)

\* get_window_key(**kwargs)
get_window_key(kwargs) ==
    IF kwargs.appid # <<>> THEN kwargs.appid
    ELSE IF kwargs.runner.present THEN kwargs.runner.name
    ELSE IF kwargs.installers # <<>> THEN kwargs.installers[1].game_slug
    ELSE IF kwargs.game # NoGame THEN Str(kwargs.game.id)
    ELSE StrKwargs(kwargs)

\* a call of get_window_key(**kwargs), recorded with the key it returns
get_window_key_call(kwargs) ==
    /\ app_state = "running"
    /\ call' = [NoCall EXCEPT !.op = "get_window_key", !.ret = "key",
                              !.kwargs = kwargs,
                              !.derived = get_window_key(kwargs)]
    /\ UNCHANGED <<running_games, app_windows, window, window_visible,
                   run_in_background, instances, app_state, active, pending>>

\* the dict with window_key bound to handle h
DictSet(d, k, h) == [x \in (DOMAIN d) \cup {k} |-> IF x = k THEN h ELSE d[x]]

\* del d[k]
DictDel(d, k) == [x \in (DOMAIN d) \ {k} |-> d[x]]

\* show_window ignoring the registry: an instance is built on every call
ShowWindow_AlwaysBuild(aw, insts, cls, kwargs) ==
    LET window_key == cls.name \o get_window_key(kwargs)
        h == Len(insts) + 1
    IN  [app_windows |-> DictSet(aw, window_key, h),
         instances |-> Append(insts, [cls |-> cls.name,
                                      key |-> get_window_key(kwargs),
                                      alive |-> TRUE]),
         handle |-> h, constructed |-> TRUE, key |-> window_key,
         trace |-> <<"construct", "connect destroy", "show">>]

\* show_window(window_class, **kwargs) on registry aw and instances insts:
\* the registry and instances after it, the handle returned, whether an
\* instance was built, and the calls made
ShowWindow(aw, insts, cls, kwargs) ==
    LET window_key == cls.name \o get_window_key(kwargs)
        h == Len(insts) + 1
    IN  IF window_key \in DOMAIN aw
        THEN [app_windows |-> aw, instances |-> insts,
              handle |-> aw[window_key], constructed |-> FALSE,
              key |-> window_key, trace |-> <<"app_window.present">>]
        ELSE [app_windows |-> DictSet(aw, window_key, h),
              instances |-> Append(insts, [cls |-> cls.name,
                                           key |-> get_window_key(kwargs),
                                           alive |-> TRUE]),
              handle |-> h, constructed |-> TRUE, key |-> window_key,
              trace |-> <<"construct">>
                        \o (IF cls.dialog THEN <<"set_application">> ELSE <<>>)
                        \o <<"connect destroy", "show">>]

show_window(cls, kwargs) ==
    /\ app_state = "running"
    /\ LET r == ShowWindow(app_windows, instances, cls, kwargs)
       IN  /\ Len(r.instances) <= MaxWindows
           /\ app_windows' = r.app_windows
           /\ instances' = r.instances
           /\ call' = [NoCall EXCEPT !.op = "show_window", !.ret = "handle",
                                     !.handle = r.handle,
                                     !.constructed = r.constructed,
                                     !.key = r.key, !.cls = cls.name,
                                     !.derived = get_window_key(kwargs),
                                     !.trace = r.trace]
    /\ UNCHANGED <<running_games, window, window_visible, run_in_background,
                   app_state, active, pending>>

\* the del emptying the registry when the key is not in it
DestroyedRemove_ClearsOnMiss(aw, window_key) ==
    IF window_key \in DOMAIN aw THEN DictDel(aw, window_key) ELSE [k \in {} |-> 0]

\* the registry after on_app_window_destroyed's del
DestroyedRemove(aw, window_key) ==
    IF window_key \in DOMAIN aw THEN DictDel(aw, window_key) ELSE aw

\* on_app_window_destroyed(app_window, window_key) for the instance with
\* handle h; window_key is the key bound when the handler was connected
on_app_window_destroyed(h) ==
    /\ app_state = "running"
    /\ LET window_key == instances[h].cls \o instances[h].key
       IN  /\ app_windows' = DestroyedRemove(app_windows, window_key)
           /\ instances' = [instances EXCEPT ![h].alive = FALSE]
           /\ call' = [NoCall EXCEPT
                  !.op = "on_app_window_destroyed", !.ret = "True",
                  !.handle = h, !.key = window_key,
                  !.cls = instances[h].cls, !.derived = instances[h].key,
                  !.trace = IF window_key \in DOMAIN app_windows
                            THEN <<"del", "debug">>
                            ELSE <<"warning", "info">>]
    /\ UNCHANGED <<running_games, window, window_visible, run_in_background,
                   app_state, active, pending>>

\* the keyword arguments the model calls show_window with
KwargsSet ==
    {[NoKwargs EXCEPT !.appid = <<"k">>],
     [NoKwargs EXCEPT !.appid = <<"X", "k">>, !.game = [obj |-> 1, id |-> 1]],
     [NoKwargs EXCEPT !.installers = <<[game_slug |-> <<"s">>]>>,
                      !.game = [obj |-> 3, id |-> 12]],
     NoKwargs}

ShowWindowCall == \E cls \in WindowClasses, kwargs \in KwargsSet : show_window(cls, kwargs)

\* GTK destroys a live window and emits its "destroy" signal
WindowDestroyed ==
    \E h \in DOMAIN instances : instances[h].alive /\ on_app_window_destroyed(h)

\* "destroy" is emitted again for a window that was already destroyed
DestroyRedelivered ==
    \E h \in DOMAIN instances : ~instances[h].alive /\ on_app_window_destroyed(h)

\* The keyword arguments get_window_key is called with: every combination
\* of an appid (absent or empty, or a string; "12" is also the str() of a
\* game id), a runner (absent, or one with a name, which may be empty), a
\* list of installers (empty, one, two), a game (absent, or one with its
\* id, which may be 0) and a service.
KeyKwargs ==
    {[appid |-> a, runner |-> r, installers |-> i, game |-> g, service |-> sv] :
        a \in {<<>>, <<"a">>, <<"1", "2">>},
        r \in {NoRunner, [present |-> TRUE, name |-> <<"r">>],
                [present |-> TRUE, name |-> <<>>]},
        i \in {<<>>, <<[game_slug |-> <<"s">>]>>,
                <<[game_slug |-> <<"t">>], [game_slug |-> <<"s">>]>>},
        g \in {NoGame, [obj |-> 3, id |-> 12], [obj |-> 4, id |-> 0]},
        sv \in {<<>>, <<"steam">>}}

WindowKeyCall == \E kwargs \in KeyKwargs : get_window_key_call(kwargs)

\* get_window_key applied to every combination of arguments
SpecWindowKey == Init /\ [][WindowKeyCall]_vars

NextWindows == ShowWindowCall \/ WindowDestroyed

SpecWindows == Init /\ [][NextWindows]_vars

NextRedelivery == ShowWindowCall \/ WindowDestroyed \/ DestroyRedelivered

SpecRedelivery == Init /\ [][NextRedelivery]_vars

----------------------------------------------------------------------------
(* Command line *)

\* The flags that end do_command_line with a text-only or stand-alone command
ShortCircuitFlags ==
    {"version", "list-games", "list-steam-games", "list-steam-folders",
     "exec", "submit-issue"}

\* init_lutris(), migrate(), run_all_checks()
Startup == <<"init_lutris", "migrate", "run_all_checks">>

\* What one do_command_line invocation yields: its return value, the action
\* and db_game it ended with, the calls it made, and the fields it leaves.
Outcome(ret, action, db_game, trace, rib, w, vis, aw, insts, st) ==
    [ret |-> ret, action |-> action, db_game |-> db_game, trace |-> trace,
     run_in_background |-> rib, window |-> w, window_visible |-> vis,
     app_windows |-> aw, instances |-> insts, app_state |-> st]

\* an invocation that returns before it touches the Application's fields
Early(ret, trace) ==
    Outcome(ret, "", NoRow, trace, run_in_background, window, window_visible,
            app_windows, instances, app_state)

\* do_activate leaving run_in_background set
Activate_NoReset(w, vis, rib) ==
    [window |-> TRUE,
     window_visible |-> IF rib THEN vis ELSE TRUE,
     run_in_background |-> rib,
     trace |-> <<"show_update_runtime_dialog">>
               \o (IF w THEN <<>> ELSE <<"LutrisWindow">>)
               \o (IF rib THEN <<>> ELSE <<"window.present">>)]

\* do_activate on (self.window, its visibility, self.run_in_background)
Activate(w, vis, rib) ==
    [window |-> TRUE,
     window_visible |-> IF rib THEN vis ELSE TRUE,
     run_in_background |-> FALSE,
     trace |-> <<"show_update_runtime_dialog">>
               \o (IF w THEN <<>> ELSE <<"LutrisWindow">>)
               \o (IF rib THEN <<>> ELSE <<"window.present">>)]

\* if options.contains("output-script"): action = "write-script"
ScriptAction(flags, action) ==
    IF "output-script" \in flags THEN "write-script" ELSE action

\* the install branch sets action = "install" for a remote and for a local file
InstallFileAction(flags, action) ==
    IF "install" \in flags THEN "install" ELSE action

\* Python's truthiness of a row, and of its id
Truthy(row) == row.found

\* "not db_game or not db_game['id']", negated, without the test of the id
ValidGame_IgnoresId(row) == row.found

\* "not db_game or not db_game['id']", negated
ValidGame(row) == row.found /\ row.id # 0

\* a or b
Or(a, b) == IF Truthy(a) THEN a ELSE b

\* the game lookup setting run_in_background in its last branch too
Lookup_BackgroundWhateverAction(inp, action) ==
    IF inp.game_slug # "" /\ inp.service = ""
    THEN IF action = "rungameid"
         THEN [db_game |-> inp.by_id, background |-> TRUE,
               trace |-> <<"get_game_by_field id">>]
         ELSE IF action = "rungame"
         THEN [db_game |-> inp.by_slug, background |-> TRUE,
               trace |-> <<"get_game_by_field slug">>]
         ELSE IF action = "install"
         THEN [db_game |-> Or(inp.by_slug, inp.by_installer_slug),
               background |-> TRUE,
               trace |-> <<"get_game_by_field slug">>
                         \o (IF Truthy(inp.by_slug) THEN <<>>
                             ELSE <<"get_game_by_field installer_slug">>)]
         ELSE [db_game |-> Or(inp.by_id, Or(inp.by_slug, inp.by_installer_slug)),
               background |-> TRUE,
               trace |-> <<"get_game_by_field id">>
                         \o (IF Truthy(inp.by_id) THEN <<>>
                             ELSE <<"get_game_by_field slug">>
                                  \o (IF Truthy(inp.by_slug) THEN <<>>
                                      ELSE <<"get_game_by_field installer_slug">>))]
    ELSE [db_game |-> NoRow, background |-> FALSE, trace |-> <<>>]

\* the game lookup trying id, slug and installer slug whatever the action
Lookup_AlwaysTriesAll(inp, action) ==
    IF inp.game_slug # "" /\ inp.service = ""
    THEN [db_game |-> Or(inp.by_id, Or(inp.by_slug, inp.by_installer_slug)),
          background |-> action \in {"rungameid", "rungame", "install"},
          trace |-> <<"get_game_by_field id">>
                    \o (IF Truthy(inp.by_id) THEN <<>>
                        ELSE <<"get_game_by_field slug">>
                             \o (IF Truthy(inp.by_slug) THEN <<>>
                                 ELSE <<"get_game_by_field installer_slug">>))]
    ELSE [db_game |-> NoRow, background |-> FALSE, trace |-> <<>>]

\* the game lookup made for every slug, a service being set or not
Lookup_IgnoresService(inp, action) ==
    IF inp.game_slug # ""
    THEN IF action = "rungameid"
         THEN [db_game |-> inp.by_id, background |-> TRUE,
               trace |-> <<"get_game_by_field id">>]
         ELSE IF action = "rungame"
         THEN [db_game |-> inp.by_slug, background |-> TRUE,
               trace |-> <<"get_game_by_field slug">>]
         ELSE [db_game |-> Or(inp.by_slug, inp.by_installer_slug),
               background |-> action = "install",
               trace |-> <<"get_game_by_field slug">>
                         \o (IF Truthy(inp.by_slug) THEN <<>>
                             ELSE <<"get_game_by_field installer_slug">>)]
    ELSE [db_game |-> NoRow, background |-> FALSE, trace |-> <<>>]

\* the game lookup: db_game, whether run_in_background was set, the calls made
Lookup(inp, action) ==
    IF inp.game_slug # "" /\ inp.service = ""
    THEN IF action = "rungameid"
         THEN [db_game |-> inp.by_id, background |-> TRUE,
               trace |-> <<"get_game_by_field id">>]
         ELSE IF action = "rungame"
         THEN [db_game |-> inp.by_slug, background |-> TRUE,
               trace |-> <<"get_game_by_field slug">>]
         ELSE IF action = "install"
         THEN [db_game |-> Or(inp.by_slug, inp.by_installer_slug),
               background |-> TRUE,
               trace |-> <<"get_game_by_field slug">>
                         \o (IF Truthy(inp.by_slug) THEN <<>>
                             ELSE <<"get_game_by_field installer_slug">>)]
         ELSE [db_game |-> Or(inp.by_id, Or(inp.by_slug, inp.by_installer_slug)),
               background |-> FALSE,
               trace |-> <<"get_game_by_field id">>
                         \o (IF Truthy(inp.by_id) THEN <<>>
                             ELSE <<"get_game_by_field slug">>
                                  \o (IF Truthy(inp.by_slug) THEN <<>>
                                      ELSE <<"get_game_by_field installer_slug">>))]
    ELSE [db_game |-> NoRow, background |-> FALSE, trace |-> <<>>]

\* the reinstall flag only filling in a missing action
ReinstallAction_OnlyWhenUnset(flags, action) ==
    IF "reinstall" \in flags /\ action = "" THEN "install" ELSE action

\* if options.contains("reinstall"): action = "install"
ReinstallAction(flags, action) ==
    IF "reinstall" \in flags THEN "install" ELSE action

\* the "if not action" block with a prompt that was not confirmed read as
\* a request to install
PromptAction_UnconfirmedInstalls(inp, action, db_game, installer_file) ==
    IF action # "" THEN [action |-> action, trace |-> <<>>]
    ELSE IF Truthy(db_game) /\ db_game.installed
    THEN [action |-> IF inp.dialog = "play" THEN "rungame" ELSE "install",
          trace |-> <<"InstallOrPlayDialog">>]
    ELSE IF inp.game_slug # "" \/ installer_file \/ inp.service # ""
    THEN [action |-> "install", trace |-> <<>>]
    ELSE [action |-> "", trace |-> <<>>]

\* the "if not action" block: the action after it and the calls made
PromptAction(inp, action, db_game, installer_file) ==
    IF action # "" THEN [action |-> action, trace |-> <<>>]
    ELSE IF Truthy(db_game) /\ db_game.installed
    THEN [action |-> IF inp.dialog = "play" THEN "rungame"
                     ELSE IF inp.dialog = "install" THEN "install"
                     ELSE "",
          trace |-> <<"InstallOrPlayDialog">>]
    ELSE IF inp.game_slug # "" \/ installer_file \/ inp.service # ""
    THEN [action |-> "install", trace |-> <<>>]
    ELSE [action |-> "", trace |-> <<>>]

\* if not self.window.is_visible(): self.do_shutdown(), without the test
ShutsDownWhenHidden_Always(visible) == TRUE

\* if not self.window.is_visible(): self.do_shutdown()
ShutsDownWhenHidden(visible) == ~visible

\* the final dispatch on action, after activation a: lines 480 to 497
Dispatch(inp, action, db_game, trace, a) ==
    IF action = "install"
    THEN IF inp.installers # <<>>
         THEN LET r == ShowWindow(app_windows, instances, InstallerWindow,
                                  [NoKwargs EXCEPT !.installers = inp.installers])
              IN  Outcome("0", action, db_game,
                          trace \o <<"get_installers", "show_installer_window">>
                                \o r.trace,
                          a.run_in_background, a.window, a.window_visible,
                          r.app_windows, r.instances, app_state)
         ELSE Outcome("0", action, db_game, trace \o <<"get_installers">>,
                      a.run_in_background, a.window, a.window_visible,
                      app_windows, instances, app_state)
    ELSE IF action \in {"rungame", "rungameid"}
    THEN IF ~ValidGame(db_game)
         THEN IF ShutsDownWhenHidden(a.window_visible)
              THEN Outcome("0", action, db_game,
                           trace \o <<"warning", "do_shutdown">>,
                           a.run_in_background, a.window, FALSE,
                           app_windows, instances, "shutdown")
              ELSE Outcome("0", action, db_game, trace \o <<"warning">>,
                           a.run_in_background, a.window, a.window_visible,
                           app_windows, instances, app_state)
         ELSE Outcome("0", action, db_game, trace \o <<"Game", "launch">>,
                      a.run_in_background, a.window, a.window_visible,
                      app_windows, instances, app_state)
    ELSE Outcome("0", action, db_game, trace,
                 a.run_in_background, a.window, a.window_visible,
                 app_windows, instances, app_state)

\* the graphical commands: lines 454 to 497
Graphical(inp, action, db_game, installer_file, trace, background) ==
    LET a == Activate(window, window_visible, background)
        p == PromptAction(inp, action, db_game, installer_file)
        t == trace \o <<"activate">> \o a.trace \o <<"set_tray_icon">> \o p.trace
    IN  IF inp.service # ""
        THEN IF inp.service_game
             THEN Outcome("0", p.action, db_game,
                          t \o <<"ServiceGameCollection.get_game", "service.install">>,
                          a.run_in_background, a.window, a.window_visible,
                          app_windows, instances, app_state)
             ELSE Dispatch(inp, p.action, db_game,
                           t \o <<"ServiceGameCollection.get_game">>, a)
        ELSE Dispatch(inp, p.action, db_game, t, a)

\* generate_script(db_game, script_path): the calls it makes
generate_script(db_game) == <<"generate_script", "load_config", "write_script">>

\* the write-script branch writing the script whatever the lookup gave
WriteScript_NoGameTest(db_game, trace, background) ==
    Outcome("0", "write-script", db_game, trace \o generate_script(db_game),
            background, window, window_visible, app_windows, instances, app_state)

\* lines 447 to 452: the write-script branch
WriteScript(db_game, trace, background) ==
    IF ~ValidGame(db_game)
    THEN Outcome("1", "write-script", db_game, trace \o <<"warning">>,
                 background, window, window_visible,
                 app_windows, instances, app_state)
    ELSE Outcome("0", "write-script", db_game, trace \o generate_script(db_game),
                 background, window, window_visible,
                 app_windows, instances, app_state)

\* lines 420 to 452: lookup, reinstall, write-script
Resolve(inp, action, installer_file, trace) ==
    LET l == Lookup(inp, action)
        background == run_in_background \/ l.background
        final == ReinstallAction(inp.flags, action)
        t == trace \o l.trace
    IN  IF final = "write-script"
        THEN WriteScript(l.db_game, t, background)
        ELSE Graphical(inp, final, l.db_game, installer_file, t, background)

\* lines 374 to 418: the URI, the output-script flag and the install flag
ParseAndInstallFile(inp, trace) ==
    LET t == trace \o <<"get_lutris_action">>
        action == ScriptAction(inp.flags, inp.action)
    IN  IF inp.uri = "invalid"
        THEN Early("1", t \o <<"print not a valid URI">>)
        ELSE IF "install" \in inp.flags
        THEN IF inp.file = "remote_fail"
             THEN Early("1", t \o <<"Request.get", "print Failed to download">>)
             ELSE IF inp.file = "local_missing"
             THEN Early("1", t \o <<"isfile", "print No such file">>)
             ELSE Resolve(inp, InstallFileAction(inp.flags, action), TRUE,
                          t \o (IF inp.file = "remote_ok"
                                THEN <<"Request.get", "write file", "isfile">>
                                ELSE <<"isfile">>))
        ELSE Resolve(inp, action, FALSE, t)

\* the text-only commands with submit-issue opening its window and going on
CommandLine_SubmitIssueGoesOn(inp) ==
    IF "version" \in inp.flags THEN Early("0", <<"print version">>)
    ELSE IF "list-games" \in inp.flags
    THEN Early("0", Startup \o <<"get_games", "print_game_list">>)
    ELSE IF "list-steam-games" \in inp.flags
    THEN Early("0", Startup \o <<"print_steam_list">>)
    ELSE IF "list-steam-folders" \in inp.flags
    THEN Early("0", Startup \o <<"print_steam_folders">>)
    ELSE IF "exec" \in inp.flags
    THEN Early("0", Startup \o <<"execute_command">>)
    ELSE ParseAndInstallFile(inp, Startup \o (IF "submit-issue" \in inp.flags
                                               THEN <<"IssueReportWindow">>
                                               ELSE <<>>))

\* lines 333 to 372: the text-only commands
CommandLine(inp) ==
    IF "version" \in inp.flags THEN Early("0", <<"print version">>)
    ELSE IF "list-games" \in inp.flags
    THEN Early("0", Startup \o <<"get_games", "print_game_list">>)
    ELSE IF "list-steam-games" \in inp.flags
    THEN Early("0", Startup \o <<"print_steam_list">>)
    ELSE IF "list-steam-folders" \in inp.flags
    THEN Early("0", Startup \o <<"print_steam_folders">>)
    ELSE IF "exec" \in inp.flags
    THEN Early("0", Startup \o <<"execute_command">>)
    ELSE IF "submit-issue" \in inp.flags
    THEN Early("0", Startup \o <<"IssueReportWindow">>)
    ELSE ParseAndInstallFile(inp, Startup)

\* do_command_line(command_line)
do_command_line(inp) ==
    /\ app_state = "running"
    /\ LET r == CommandLine(inp)
       IN  /\ Len(r.instances) <= MaxWindows
           /\ run_in_background' = r.run_in_background
           /\ window' = r.window
           /\ window_visible' = r.window_visible
           /\ app_windows' = r.app_windows
           /\ instances' = r.instances
           /\ app_state' = r.app_state
           /\ call' = [NoCall EXCEPT !.op = "do_command_line", !.input = inp,
                                     !.ret = r.ret, !.action = r.action,
                                     !.db_game = r.db_game, !.trace = r.trace]
    /\ pending' = NoCommandLine
    /\ UNCHANGED <<running_games, active>>

\* do_activate
do_activate ==
    /\ app_state = "running"
    /\ LET a == Activate(window, window_visible, run_in_background)
       IN  /\ window' = a.window
           /\ window_visible' = a.window_visible
           /\ run_in_background' = a.run_in_background
           /\ call' = [NoCall EXCEPT !.op = "do_activate", !.ret = "None",
                                     !.trace = a.trace]
    /\ UNCHANGED <<running_games, app_windows, instances, app_state, active, pending>>

----------------------------------------------------------------------------
(* on_game_install *)

\* what one on_game_install call yields: its return value ("True", or the
\* exception it raises), the calls it made, and the registry it leaves
Installed(ret, trace, aw, insts) ==
    [ret |-> ret, trace |-> trace, app_windows |-> aw, instances |-> insts]

\* game.service and game.service != "lutris"
IsServiceGame(game) == game.service # "" /\ game.service # "lutris"

\* show_installer_window(installers): service and appid are None
show_installer_window(aw, insts, installers) ==
    ShowWindow(aw, insts, InstallerWindow, [NoKwargs EXCEPT !.installers = installers])

\* the service branch launching whenever the service install did not raise
ServiceInstall_LaunchesUnlessRaised(aw, insts, outcome) ==
    Installed("True",
              <<"get_enabled_services", "ServiceGameCollection.get_game",
                "service.install">>
              \o (IF outcome = "raises" THEN <<"logger.debug">>
                  ELSE <<"Game", "launch">>),
              aw, insts)

\* lines 512 to 524: the install is handed to the game's service; outcome is
\* what service.install does: it raises ValueError ("raises"), returns a
\* falsy game id ("no_id") or returns a game id ("id")
ServiceInstall(aw, insts, outcome) ==
    Installed("True",
              <<"get_enabled_services", "ServiceGameCollection.get_game",
                "service.install">>
              \o (IF outcome = "raises" THEN <<"logger.debug">> ELSE <<>>)
              \o (IF outcome = "id" THEN <<"Game", "launch">> ELSE <<>>),
              aw, insts)

\* a game without slug ignored: the handler returns True
MissingSlug_ReturnsTrue(aw, insts) == Installed("True", <<>>, aw, insts)

\* lines 525 to 526: raise ValueError("Invalid game passed")
MissingSlug(aw, insts) == Installed("ValueError", <<>>, aw, insts)

\* the local branch opening the installer window whatever get_installers gave
LocalInstall_NoInstallerTest(aw, insts, installers) ==
    LET r == show_installer_window(aw, insts, installers)
    IN  Installed("True", <<"get_installers", "show_installer_window">> \o r.trace,
                  r.app_windows, r.instances)

\* lines 528 to 533: installers is what get_installers(game_slug=game.slug) gave
LocalInstall(aw, insts, installers) ==
    IF installers # <<>>
    THEN LET r == show_installer_window(aw, insts, installers)
         IN  Installed("True",
                       <<"get_installers", "show_installer_window">> \o r.trace,
                       r.app_windows, r.instances)
    ELSE Installed("True", <<"get_installers", "ErrorDialog">>, aw, insts)

\* the body of on_game_install
GameInstall(aw, insts, game, outcome, installers) ==
    IF IsServiceGame(game) THEN ServiceInstall(aw, insts, outcome)
    ELSE IF game.slug = "" THEN MissingSlug(aw, insts)
    ELSE LocalInstall(aw, insts, installers)

\* on_game_install(game)
on_game_install(game, outcome, installers) ==
    /\ app_state = "running"
    /\ LET r == GameInstall(app_windows, instances, game, outcome, installers)
       IN  /\ Len(r.instances) <= MaxWindows
           /\ app_windows' = r.app_windows
           /\ instances' = r.instances
           /\ call' = [NoCall EXCEPT
                  !.op = "on_game_install", !.ret = r.ret, !.trace = r.trace,
                  !.input = [NoInput EXCEPT !.service = game.service,
                                            !.game_slug = game.slug,
                                            !.installers = installers,
                                            !.service_install = outcome]]
    /\ UNCHANGED <<running_games, window, window_visible, run_in_background,
                   app_state, active, pending>>

----------------------------------------------------------------------------
(* Specifications *)

\* The command lines the model invokes do_command_line with.
Flags == ShortCircuitFlags \cup {"output-script", "install", "reinstall"}

\* every combination of the three action flags, alone or with one
\* short-circuit flag, and two short-circuit flags together
FlagSets ==
    {f \in SUBSET Flags :
        \/ f \cap ShortCircuitFlags = {}
        \/ /\ Cardinality(f \cap ShortCircuitFlags) = 1
           /\ f \ ShortCircuitFlags \in {{}, {"output-script", "install", "reinstall"}}}
    \cup {{"version", "list-games"}}

\* What get_lutris_action yields for the URI argument: ValueError
\* ("invalid"), the all-None info of an absent URI ("none"), or a parsed
\* URI with its action, slug and service.
Uris ==
    {[uri |-> "invalid", action |-> "", game_slug |-> "", service |-> ""],
     [uri |-> "none", action |-> "", game_slug |-> "", service |-> ""]}
    \cup {[uri |-> "parsed", action |-> a, game_slug |-> "slug", service |-> s] :
            a \in {"", "install", "rungame", "rungameid"}, s \in {"", "steam"}}

\* the rows a lookup may return: none, a row with a falsy id, an installed
\* game, a game that is not installed
Rows(id) ==
    {NoRow,
     [found |-> TRUE, id |-> 0, installed |-> TRUE],
     [found |-> TRUE, id |-> id, installed |-> TRUE],
     [found |-> TRUE, id |-> id, installed |-> FALSE]}

\* the invocation calls the collaborator ev when its inputs are inp
Asks(inp, ev) == ev \in Range(CommandLine(inp).trace)

\* A lutris process is started with a command line, which GApplication
\* hands to the primary instance: its "command-line" signal is pending.
CommandLineArrives ==
    /\ app_state = "running"
    /\ ~pending.present
    /\ \E flags \in FlagSets, u \in Uris :
          pending' = [present |-> TRUE, flags |-> flags, uri |-> u.uri,
                      action |-> u.action, game_slug |-> u.game_slug,
                      service |-> u.service]
    /\ call' = [NoCall EXCEPT !.op = "command-line"]
    /\ UNCHANGED <<running_games, app_windows, window, window_visible,
                   run_in_background, instances, app_state, active>>

\* The pending command line is handled: the collaborators answer, in the
\* order the code asks them, only the questions the code asks.  Whether the
\* service catalog holds an entry for the URI's (service, appid) is a fact
\* of the catalog, asked or not.
CommandLineCall ==
    /\ pending.present
    /\ LET i0 == [NoInput EXCEPT !.flags = pending.flags, !.uri = pending.uri,
                                 !.action = pending.action,
                                 !.game_slug = pending.game_slug,
                                 !.service = pending.service, !.file = "local"]
       IN
       \E file \in (IF Asks(i0, "isfile")
                    THEN {"remote_fail", "remote_ok", "local", "local_missing"}
                    ELSE {"none"}) :
       LET i1 == [i0 EXCEPT !.file = file] IN
       \E by_id \in (IF Asks(i1, "get_game_by_field id") THEN Rows(1) ELSE {NoRow}) :
       LET i2 == [i1 EXCEPT !.by_id = by_id] IN
       \E by_slug \in (IF Asks(i2, "get_game_by_field slug") THEN Rows(2) ELSE {NoRow}) :
       LET i3 == [i2 EXCEPT !.by_slug = by_slug] IN
       \E by_inst \in (IF Asks(i3, "get_game_by_field installer_slug")
                       THEN Rows(3) ELSE {NoRow}) :
       LET i4 == [i3 EXCEPT !.by_installer_slug = by_inst] IN
       \E dialog \in (IF Asks(i4, "InstallOrPlayDialog")
                      THEN {"unconfirmed", "play", "install"} ELSE {"none"}) :
       LET i5 == [i4 EXCEPT !.dialog = dialog] IN
       \E service_game \in (IF i5.service # "" THEN BOOLEAN ELSE {FALSE}) :
       LET i6 == [i5 EXCEPT !.service_game = service_game] IN
       \E installers \in (IF Asks(i6, "get_installers")
                          THEN {<<>>, <<[game_slug |-> <<"s">>]>>} ELSE {<<>>}) :
           do_command_line([i6 EXCEPT !.installers = installers])

GameStart == \E g \in Games, hide \in BOOLEAN : on_game_start(g, hide)

GameStop == \E g \in Games, hide \in BOOLEAN : on_game_stop(g, hide)

\* the game lifecycle hooks, on an activated application
NextLifecycle == do_activate \/ GameStart \/ GameStop

SpecLifecycle == Init /\ [][NextLifecycle]_vars

\* command lines, activations, and the installer windows being closed
NextCommandLine == CommandLineArrives \/ CommandLineCall \/ do_activate \/ WindowDestroyed

SpecCommandLine == Init /\ [][NextCommandLine]_vars

\* The games on_game_install is called with: of no service, of the
\* "lutris" service or of another one, with a slug or without.
InstallGames ==
    {[service |-> sv, slug |-> sl] :
        sv \in {"", "lutris", "steam"}, sl \in {"", "slug", "other"}}

\* the installer lists get_installers may give: none, or one whose first
\* installer names a game slug
InstallerLists == {<<>>, <<[game_slug |-> <<"s">>]>>, <<[game_slug |-> <<"t">>]>>}

\* "game-install" is emitted for a game; the service and get_installers
\* answer when the handler reaches them
GameInstallCall ==
    \E game \in InstallGames :
    \E outcome \in (IF IsServiceGame(game) THEN {"raises", "no_id", "id"}
                    ELSE {"none"}) :
    \E installers \in (IF ~IsServiceGame(game) /\ game.slug # ""
                       THEN InstallerLists ELSE {<<>>}) :
        on_game_install(game, outcome, installers)

\* install requests, the installer windows being closed, and activations
NextInstall == GameInstallCall \/ WindowDestroyed \/ do_activate

SpecInstall == Init /\ [][NextInstall]_vars

\* every handler of the Application; the specifications above are its
\* restrictions to one component's handlers
Next ==
    \/ WindowKeyCall
    \/ GameInstallCall
    \/ do_activate
    \/ GameStart
    \/ GameStop
    \/ ShowWindowCall
    \/ WindowDestroyed
    \/ DestroyRedelivered
    \/ CommandLineArrives
    \/ CommandLineCall

Spec == Init /\ [][Next]_vars

----------------------------------------------------------------------------
(* Claims about the game lifecycle *)

\* C1: running_games never holds two entries with the same game id
\* (on_game_start twice for one id leaves one entry for it).
C1_NoDuplicateIds ==
    \A i, j \in 1..Len(running_games) :
        i # j => running_games[i].id # running_games[j].id

\* C2: an id is in running_games exactly when an on_game_start for it has
\* completed and no on_game_stop for it has completed since.
C2_MembershipExact ==
    \A id \in GameIds :
        (Str(id) \in Range(get_running_game_ids(running_games))) <=> (id \in active)

\* C3: on_game_stop for a game whose id is not in running_games leaves
\* running_games unchanged (same entries, same order), logs a warning and
\* returns normally.
C3_StopAbsentUnchanged ==
    [][(call'.op = "on_game_stop"
        /\ Str(call'.game.id) \notin Range(get_running_game_ids(running_games)))
       => /\ running_games' = running_games
          /\ "warning" \in Range(call'.trace)
          /\ call'.ret = "True"]_vars

\* a stop of an absent id was handled while two other games were running
C3_Witness ==
    /\ call.op = "on_game_stop"
    /\ "warning" \in Range(call.trace)
    /\ Len(running_games) = 2
    /\ Str(call.game.id) \notin Range(get_running_game_ids(running_games))

----------------------------------------------------------------------------
(* Claims about the window registry *)

\* the live instances of window class name c built with derived key k
LiveIn(insts, c, k) ==
    {h \in DOMAIN insts : insts[h].alive /\ insts[h].cls = c /\ insts[h].key = k}

Live(c, k) == LiveIn(instances, c, k)

C5_OneLivePerKey ==
    \A h1, h2 \in DOMAIN instances :
        (/\ instances[h1].alive /\ instances[h2].alive
         /\ instances[h1].cls = instances[h2].cls
         /\ instances[h1].key = instances[h2].key)
        => h1 = h2

----------------------------------------------------------------------------
(* Claims about the command line *)

\* the calls of an invocation's trace
Calls == Range(call.trace)

Invoked == call.op = "do_command_line"

ShortCircuited == call.input.flags \cap ShortCircuitFlags # {}

\* the invocation ended on a bad URI, a failed download or a missing file
InputError ==
    \/ call.input.uri = "invalid"
    \/ "install" \in call.input.flags
       /\ call.input.file \in {"remote_fail", "local_missing"}

\* C6: an invocation with a short-circuit flag set returns 0 before the URI
\* is parsed, before any get_game_by_field lookup and before the main
\* window is activated, whatever other flags or URI are given.
C6_ShortCircuitFirst ==
    (Invoked /\ ShortCircuited)
    => /\ call.ret = "0"
       /\ Calls \cap {"get_lutris_action", "get_game_by_field id",
                      "get_game_by_field slug", "get_game_by_field installer_slug",
                      "activate", "LutrisWindow", "window.present"} = {}

\* submit-issue was given together with all three action flags and a
\* rungameid URI
C6_Witness ==
    /\ Invoked
    /\ call.input.flags = {"submit-issue", "output-script", "install", "reinstall"}
    /\ call.input.action = "rungameid"
    /\ call.ret = "0"

\* C7: an invocation with the reinstall flag that is not ended by a
\* short-circuit flag or an input error ends with action install, handed to
\* the installers or to the service, for every URI action and every
\* combination of the output-script and install flags; it writes no script
\* and launches no game.
C7_ReinstallForcesInstall ==
    (Invoked /\ "reinstall" \in call.input.flags /\ ~ShortCircuited /\ ~InputError)
    => /\ call.action = "install"
       /\ call.ret = "0"
       /\ Calls \cap {"get_installers", "service.install"} # {}
       /\ Calls \cap {"generate_script", "Game", "launch"} = {}

\* reinstall was given with output-script and a rungame URI whose game is
\* in the library
C7_Witness ==
    /\ Invoked
    /\ call.input.flags = {"reinstall", "output-script"}
    /\ call.input.action = "rungame"
    /\ call.db_game.found /\ call.db_game.id # 0
    /\ "get_installers" \in Calls

\* C8, as claimed: the activation of an invocation does not present the
\* main window exactly when the invocation's URI action is rungame or
\* rungameid, and the flag is false again after it.
C8_BackgroundIffRunUri ==
    (Invoked /\ "activate" \in Calls)
    => /\ ("window.present" \notin Calls) <=> (call.input.action \in {"rungame", "rungameid"})
       /\ ~run_in_background

\* the invocation looked the game up with action install, rungame or rungameid
LookedUpForAction ==
    /\ call.input.game_slug # ""
    /\ call.input.service = ""
    /\ \/ "install" \in call.input.flags
       \/ /\ "output-script" \notin call.input.flags
          /\ call.input.action \in {"install", "rungame", "rungameid"}

\* C8, amended: run_in_background is true for exactly one activation, that
\* of an invocation which looked the game up (slug set, no service) with
\* action rungame, rungameid or install: that activation does not present
\* the main window and resets the flag; every other activation presents it,
\* and the flag is false after every handler.
C8_BackgroundExactlyOnce ==
    /\ ~run_in_background
    /\ (Invoked /\ "activate" \in Calls)
       => (("window.present" \notin Calls) <=> LookedUpForAction)
    /\ call.op = "do_activate" => "window.present" \in Calls

\* a rungameid invocation was activated without presenting the window
C8_Witness ==
    /\ Invoked
    /\ call.input.action = "rungameid"
    /\ call.input.flags = {}
    /\ "activate" \in Calls
    /\ "window.present" \notin Calls
    /\ ~window_visible

\* C9: do_command_line returns 1 exactly when the URI is not valid, the
\* install file cannot be downloaded or does not exist, or the action is
\* write-script and no game with a valid id was resolved; it returns 0
\* otherwise.
C9_ReturnCode ==
    Invoked
    => /\ call.ret \in {"0", "1"}
       /\ (call.ret = "1")
          <=> /\ ~ShortCircuited
              /\ \/ InputError
                 \/ /\ "output-script" \in call.input.flags
                    /\ call.input.flags \cap {"install", "reinstall"} = {}
                    /\ ~(call.db_game.found /\ call.db_game.id # 0)

\* script export failed on a row whose id is falsy
C9_Witness ==
    /\ Invoked
    /\ call.ret = "1"
    /\ call.input.flags = {"output-script"}
    /\ call.db_game.found
    /\ call.db_game.id = 0

\* C10: when the action dispatched is rungame or rungameid, the game is
\* launched exactly when a database game with a valid id was resolved;
\* otherwise a warning is logged, do_shutdown is called exactly when the
\* main window is not visible, and the invocation returns 0.
C10_RunNeedsValidGame ==
    [][(call'.op = "do_command_line"
        /\ call'.action \in {"rungame", "rungameid"}
        /\ "service.install" \notin Range(call'.trace))
       => LET valid == call'.db_game.found /\ call'.db_game.id # 0
              calls == Range(call'.trace)
              visible == window_visible \/ "window.present" \in calls
          IN  /\ call'.ret = "0"
              /\ ("launch" \in calls) <=> valid
              /\ ~valid => /\ "warning" \in calls
                           /\ ("do_shutdown" \in calls) <=> ~visible
                           /\ (app_state' = "shutdown") <=> ~visible]_vars

\* a rungame invocation found no game while the main window was hidden, and
\* shut the application down
C10_Witness ==
    /\ Invoked
    /\ call.action = "rungame"
    /\ ~call.db_game.found
    /\ "do_shutdown" \in Calls
    /\ app_state = "shutdown"

\* C11: an invocation with the output-script flag, without the reinstall
\* flag, that is not ended by a short-circuit flag or an input error ends
\* with action write-script, whatever the URI action and whether or not the
\* install flag is given.
C11_OutputScriptWins ==
    (/\ Invoked
     /\ "output-script" \in call.input.flags
     /\ "reinstall" \notin call.input.flags
     /\ ~ShortCircuited
     /\ ~InputError)
    => call.action = "write-script"

\* the calls that activate the main window, and those that hand an action on
ActivationCalls == {"activate", "LutrisWindow", "window.present", "set_tray_icon"}

DispatchCalls == {"get_installers", "show_installer_window", "service.install",
                  "Game", "launch"}

\* C12: an invocation ending with action write-script calls generate_script
\* exactly when a database game with a valid id was resolved; when none was
\* resolved it returns 1 and has written no script, has not activated the
\* main window (which is left as it was) and has dispatched no install and
\* no launch.
C12_ScriptNeedsValidGame ==
    [][(call'.op = "do_command_line" /\ call'.action = "write-script")
       => LET valid == call'.db_game.found /\ call'.db_game.id # 0
              calls == Range(call'.trace)
          IN  /\ ("generate_script" \in calls) <=> valid
              /\ ("write_script" \in calls) <=> valid
              /\ valid => call'.ret = "0"
              /\ ~valid
                 => /\ call'.ret = "1"
                    /\ calls \cap (ActivationCalls \cup DispatchCalls) = {}
                    /\ window' = window
                    /\ window_visible' = window_visible
                    /\ instances' = instances
                    /\ app_windows' = app_windows
                    /\ app_state' = app_state]_vars

\* a script was asked for a rungame URI whose slug is not in the library,
\* before the main window was ever built
C12_Witness ==
    /\ Invoked
    /\ call.action = "write-script"
    /\ call.input.action = "rungame"
    /\ ~call.db_game.found
    /\ call.ret = "1"
    /\ "get_game_by_field slug" \in Calls
    /\ ~window

LookupCalls == {"get_game_by_field id", "get_game_by_field slug",
                "get_game_by_field installer_slug"}

\* the URI was parsed and carries a service
ServiceUri ==
    /\ Invoked
    /\ "get_lutris_action" \in Calls
    /\ call.input.uri = "parsed"
    /\ call.input.service # ""

\* what C13 says of an invocation whose service has a catalog entry
ServiceInstalls ==
    /\ "service.install" \in Calls
    /\ call.ret = "0"
    /\ Calls \cap {"get_installers", "show_installer_window", "Game", "launch"} = {}

\* C13, as claimed: an invocation whose parsed URI carries a service makes
\* no games_db lookup, and whenever the service catalog has an entry for
\* (service, appid) it invokes the service's install and returns 0 without
\* get_installers, without the installer window and without a launch.
C13_ServiceBypass ==
    ServiceUri
    => /\ Calls \cap LookupCalls = {}
       /\ call.input.service_game => ServiceInstalls

\* C13, amended: an invocation whose parsed URI carries a service makes no
\* games_db lookup; if it is not ended by an install-file error or by the
\* write-script branch and the catalog has an entry for (service, appid),
\* it invokes the service's install and returns 0 without get_installers,
\* without the installer window and without a launch.  Ended by the
\* write-script branch, it returns 1 and never asks the catalog.
C13_ServiceBypassWhenReached ==
    ServiceUri
    => /\ Calls \cap LookupCalls = {}
       /\ (call.input.service_game /\ ~InputError /\ call.action # "write-script")
          => ServiceInstalls
       /\ call.action = "write-script"
          => /\ call.ret = "1"
             /\ "ServiceGameCollection.get_game" \notin Calls

\* a rungame URI with a service that has a catalog entry was handed to the
\* service
C13_Witness ==
    /\ ServiceUri
    /\ call.input.action = "rungame"
    /\ call.input.flags = {}
    /\ call.input.service_game
    /\ ServiceInstalls
    /\ call.db_game = NoRow

\* flag and URI processing left the action undetermined
Undetermined ==
    /\ Invoked
    /\ ~ShortCircuited
    /\ ~InputError
    /\ call.input.flags \cap {"output-script", "install", "reinstall"} = {}
    /\ call.input.action = ""

\* C14: when flag and URI processing leave the action undetermined: a
\* resolved game marked installed makes the invocation prompt, and the
\* action is then empty for a prompt not confirmed, rungame for 'play' and
\* install for 'install'; with no game resolved and a slug or a service
\* present (an installer file always determines the action) the action is
\* install, without a prompt; with none of them the action stays empty,
\* nothing is dispatched and the main window is presented.  No invocation
\* prompts otherwise.
C14_UndeterminedAction ==
    /\ Undetermined
       => /\ (call.db_game.found /\ call.db_game.installed)
             => /\ "InstallOrPlayDialog" \in Calls
                /\ call.input.dialog = "unconfirmed"
                   => (call.action = "" /\ Calls \cap DispatchCalls = {})
                /\ call.input.dialog = "play" => call.action = "rungame"
                /\ call.input.dialog = "install" => call.action = "install"
          /\ (~call.db_game.found
              /\ (call.input.game_slug # "" \/ call.input.service # ""))
             => (call.action = "install" /\ "InstallOrPlayDialog" \notin Calls)
          /\ (~call.db_game.found
              /\ call.input.game_slug = "" /\ call.input.service = "")
             => /\ call.action = ""
                /\ call.ret = "0"
                /\ Calls \cap DispatchCalls = {}
                /\ "InstallOrPlayDialog" \notin Calls
                /\ "window.present" \in Calls
                /\ window /\ window_visible
    /\ (Invoked /\ "InstallOrPlayDialog" \in Calls)
       => (Undetermined /\ call.db_game.found /\ call.db_game.installed)

\* a URI without action named an installed game, found by its installer
\* slug, and the prompt was not confirmed: nothing was dispatched
C14_Witness ==
    /\ Undetermined
    /\ call.db_game.found /\ call.db_game.installed
    /\ call.db_game = call.input.by_installer_slug
    /\ call.input.dialog = "unconfirmed"
    /\ call.action = ""
    /\ call.ret = "0"
    /\ Calls \cap DispatchCalls = {}

\* the action the lookup sees: the URI's, replaced by write-script under the
\* output-script flag and then by install under the install flag
LookupAction ==
    IF "install" \in call.input.flags THEN "install"
    ELSE IF "output-script" \in call.input.flags THEN "write-script"
    ELSE call.input.action

\* the fields the lookup may try for an action, in order
FieldOrder(action) ==
    IF action = "rungameid" THEN <<"id">>
    ELSE IF action = "rungame" THEN <<"slug">>
    ELSE IF action = "install" THEN <<"slug", "installer_slug">>
    ELSE <<"id", "slug", "installer_slug">>

\* what games_db.get_game_by_field answered for a field
RowBy(field) ==
    IF field = "id" THEN call.input.by_id
    ELSE IF field = "slug" THEN call.input.by_slug
    ELSE call.input.by_installer_slug

LookupEvent(field) ==
    IF field = "id" THEN "get_game_by_field id"
    ELSE IF field = "slug" THEN "get_game_by_field slug"
    ELSE "get_game_by_field installer_slug"

IsLookupCall(e) == e \in LookupCalls

\* the get_game_by_field calls of the invocation, in order
LookupsMade == SelectSeq(call.trace, IsLookupCall)

\* C15: an invocation that reaches the lookup with a slug and no service
\* tries the fields in the order fixed by the action (rungameid: id;
\* rungame: slug; install: slug, installer_slug; none: id, slug,
\* installer_slug), stops at the first field that gives a row, and resolves
\* that row; when no field gives one it resolves no game and goes on to
\* activate the main window and return 0.
C15_LookupOrder ==
    (/\ Invoked /\ ~ShortCircuited /\ ~InputError
     /\ call.input.game_slug # "" /\ call.input.service = ""
     /\ LookupAction \in {"rungameid", "rungame", "install", ""})
    => LET order == FieldOrder(LookupAction)
           n == Len(LookupsMade)
       IN  /\ n \in 1..Len(order)
           /\ \A i \in 1..n : LookupsMade[i] = LookupEvent(order[i])
           /\ \A i \in 1..(n - 1) : ~RowBy(order[i]).found
           /\ n < Len(order) => RowBy(order[n]).found
           /\ call.db_game = RowBy(order[n])
           /\ ~RowBy(order[n]).found
              => /\ call.db_game = NoRow
                 /\ "activate" \in Calls
                 /\ call.ret = "0"

\* an install URI whose slug matched no game's slug but a game's installer
\* slug: two lookups, the id never tried
C15_Witness ==
    /\ Invoked
    /\ call.input.flags = {}
    /\ call.input.action = "install"
    /\ LookupsMade = <<"get_game_by_field slug", "get_game_by_field installer_slug">>
    /\ ~call.input.by_slug.found
    /\ call.db_game.found
    /\ call.db_game = call.input.by_installer_slug

----------------------------------------------------------------------------
(* Claims about on_game_stop *)

\* the positions of running_games holding the id of game
Entries(games, game) == {i \in 1..Len(games) : Str(games[i].id) = Str(game.id)}

\* C16: in every on_game_stop call for a game whose id is in running_games
\* at most once, "game-stopped" is emitted after the removal step (or the
\* warning, for an absent id), and running_games as a listener of the
\* signal reads it does not hold the game's id and is the list the call
\* leaves.
C16_StoppedAfterRemoval ==
    [][(call'.op = "on_game_stop"
        /\ Cardinality(Entries(running_games, call'.game)) <= 1)
       => /\ call'.trace[1] = (IF Entries(running_games, call'.game) = {}
                               THEN "warning" ELSE "remove")
          /\ call'.trace[2] = "emit game-stopped"
          /\ Str(call'.game.id) \notin Range(call'.seen)
          /\ call'.seen = get_running_game_ids(running_games')
          /\ Len(running_games') =
                Len(running_games) - Cardinality(Entries(running_games, call'.game))]_vars

\* game 12 was stopped while game 1 kept running: the listener saw only id 1
C16_Witness ==
    /\ call.op = "on_game_stop"
    /\ call.game.id = 12
    /\ call.trace[1] = "remove"
    /\ call.seen = <<Str(1)>>
    /\ Len(running_games) = 1

\* C17: on_game_stop calls self.quit() exactly when the hide setting is not
\* "True", the main window is not visible and running_games is empty after
\* the removal; with the setting "True" it shows the main window and does
\* not quit; it never quits while a game remains in running_games.
C17_QuitOnlyWhenIdleAndHidden ==
    [][call'.op = "on_game_stop"
       => LET quit == "quit" \in Range(call'.trace)
          IN  /\ quit <=> (~call'.hide /\ ~window_visible /\ Len(running_games') = 0)
              /\ (app_state' = "quit") <=> quit
              /\ ~quit => app_state' = app_state
              /\ call'.hide => /\ "window.show" \in Range(call'.trace)
                               /\ window_visible'
                               /\ ~quit
              /\ ~call'.hide => window_visible' = window_visible
              /\ Len(running_games') > 0 => ~quit
              /\ call'.ret = "True"]_vars

\* the last running game stopped while the main window was hidden, the
\* setting not being "True": the application quit
C17_Witness ==
    /\ call.op = "on_game_stop"
    /\ ~call.hide
    /\ call.trace = <<"remove", "emit game-stopped", "quit">>
    /\ running_games = <<>>
    /\ ~window_visible
    /\ app_state = "quit"

----------------------------------------------------------------------------
(* Claims about on_game_install *)

InstallCalled == call.op = "on_game_install"

\* the game of the call belongs to a service other than "lutris"
OfService == call.input.service \notin {"", "lutris"}

\* position of the first occurrence of event e in the call's trace, 0 if none
Position(e) ==
    IF e \in Calls
    THEN CHOOSE i \in DOMAIN call.trace :
            call.trace[i] = e /\ \A j \in 1..(i - 1) : call.trace[j] # e
    ELSE 0

\* C18: on_game_install for a game of a service other than "lutris" (a
\* service get_enabled_services knows) hands the install to the service;
\* it launches a game exactly when service.install returned a game id, and
\* then after service.install; a ValueError of service.install is logged
\* and swallowed, with no launch; in every case no installer window is
\* opened, the registry is unchanged and the handler returns True.
C18_ServiceInstallThenLaunch ==
    [][(call'.op = "on_game_install" /\ call'.input.service \notin {"", "lutris"})
       => LET calls == Range(call'.trace)
              outcome == call'.input.service_install
          IN  /\ "service.install" \in calls
              /\ ("launch" \in calls) <=> (outcome = "id")
              /\ outcome = "id"
                 => call'.trace = <<"get_enabled_services",
                                    "ServiceGameCollection.get_game",
                                    "service.install", "Game", "launch">>
              /\ outcome = "raises"
                 => ("logger.debug" \in calls /\ "launch" \notin calls)
              /\ calls \cap {"get_installers", "show_installer_window",
                              "ErrorDialog", "construct"} = {}
              /\ app_windows' = app_windows
              /\ instances' = instances
              /\ call'.ret = "True"]_vars

\* the install of a service game raised ValueError: the handler logged it
\* and returned True without a launch
C18_Witness ==
    /\ InstallCalled
    /\ OfService
    /\ call.input.service_install = "raises"
    /\ call.ret = "True"
    /\ Position("service.install") > 0
    /\ Position("logger.debug") > Position("service.install")
    /\ "launch" \notin Calls

\* C19: on_game_install for a local game (no service, or "lutris") with a
\* slug runs get_installers, and opens the installer window, one per first
\* installer's game slug, exactly when an installer came back: a live
\* instance of that key is registered afterwards; with no installer an
\* ErrorDialog is shown and the registry is unchanged.  It returns True.
C19_LocalInstallOpensWindow ==
    [][(call'.op = "on_game_install"
        /\ call'.input.service \in {"", "lutris"}
        /\ call'.input.game_slug # "")
       => LET calls == Range(call'.trace)
              installers == call'.input.installers
          IN  /\ call'.trace[1] = "get_installers"
              /\ ("show_installer_window" \in calls) <=> (installers # <<>>)
              /\ ("ErrorDialog" \in calls) <=> (installers = <<>>)
              /\ installers # <<>>
                 => LET key == InstallerWindow.name \o installers[1].game_slug
                    IN  /\ key \in DOMAIN app_windows'
                        /\ instances'[app_windows'[key]].alive
                        /\ instances'[app_windows'[key]].cls = InstallerWindow.name
                        /\ key \in DOMAIN app_windows
                           => (app_windows' = app_windows /\ instances' = instances)
              /\ installers = <<>>
                 => (app_windows' = app_windows /\ instances' = instances)
              /\ calls \cap {"service.install", "launch"} = {}
              /\ call'.ret = "True"]_vars

\* a local game's install found no installer while an installer window of
\* an earlier request was open: an ErrorDialog, and still one window
C19_Witness ==
    /\ InstallCalled
    /\ call.input.service = "lutris"
    /\ call.input.game_slug = "slug"
    /\ call.input.installers = <<>>
    /\ "ErrorDialog" \in Calls
    /\ Cardinality(DOMAIN app_windows) = 1
    /\ Len(instances) = 1

\* what C20 says of a call that fails: nothing delegated, opened or launched
NothingDone ==
    Calls \cap {"service.install", "get_installers", "show_installer_window",
                "construct", "Game", "launch"} = {}

\* C20, as claimed: on_game_install for a game without slug raises to its
\* caller, of a service or not, and delegates no install, opens no window
\* and launches nothing.
C20_NoSlugAlwaysRaises ==
    (InstallCalled /\ call.input.game_slug = "")
    => (call.ret = "ValueError" /\ NothingDone)

\* C20, amended: on_game_install for a game without slug that is of no
\* service, or of "lutris", raises ValueError and delegates no install,
\* opens no window and launches nothing; for a game of another service the
\* slug is not looked at: the install is handed to the service and the
\* handler returns True, with a slug or without.  Nothing else raises.
C20_NoSlugRaisesUnlessService ==
    InstallCalled
    => /\ (call.input.game_slug = "" /\ ~OfService)
          => (call.ret = "ValueError" /\ NothingDone /\ call.trace = <<>>)
       /\ OfService => (call.ret = "True" /\ "service.install" \in Calls)
       /\ (call.ret = "ValueError") <=> (call.input.game_slug = "" /\ ~OfService)

\* a game of the "lutris" service without slug made the handler raise while
\* an installer window was open
C20_Witness ==
    /\ InstallCalled
    /\ call.input.service = "lutris"
    /\ call.input.game_slug = ""
    /\ call.ret = "ValueError"
    /\ NothingDone
    /\ DOMAIN app_windows # {}

----------------------------------------------------------------------------
(* Claims about the window key and destroy notifications *)

\* C21: get_window_key returns the appid when it is present and not empty;
\* else the runner's name when a runner is given; else the first
\* installer's game_slug when the installer list is not empty; else the
\* str() of the game's id when a game is given; else the string form of the
\* arguments: whatever lower-precedence arguments are present too.
C21_KeyPrecedence ==
    call.op = "get_window_key"
    => LET k == call.kwargs
       IN  /\ k.appid # <<>> => call.derived = k.appid
           /\ (k.appid = <<>> /\ k.runner.present) => call.derived = k.runner.name
           /\ (k.appid = <<>> /\ ~k.runner.present /\ k.installers # <<>>)
              => call.derived = k.installers[1].game_slug
           /\ (k.appid = <<>> /\ ~k.runner.present /\ k.installers = <<>>
               /\ k.game # NoGame)
              => call.derived = Str(k.game.id)
           /\ (k.appid = <<>> /\ ~k.runner.present /\ k.installers = <<>>
               /\ k.game = NoGame)
              => call.derived = StrKwargs(k)

\* all four arguments were given, each naming something else: the key is
\* the appid
C21_Witness ==
    /\ call.op = "get_window_key"
    /\ call.kwargs.appid = <<"a">>
    /\ call.kwargs.runner = [present |-> TRUE, name |-> <<"r">>]
    /\ Len(call.kwargs.installers) = 2
    /\ call.kwargs.game.id = 12
    /\ call.derived = <<"a">>

\* C22: a destroy notification whose key is not in app_windows leaves
\* app_windows unchanged, logs a warning, raises nothing and returns True.
C22_MissingKeyTolerated ==
    [][(call'.op = "on_app_window_destroyed" /\ call'.key \notin DOMAIN app_windows)
       => /\ app_windows' = app_windows
          /\ "warning" \in Range(call'.trace)
          /\ "del" \notin Range(call'.trace)
          /\ call'.ret = "True"]_vars

\* the notification of a destroyed window came a second time while another
\* window was registered
C22_Witness ==
    /\ call.op = "on_app_window_destroyed"
    /\ "warning" \in Calls
    /\ call.ret = "True"
    /\ ~instances[call.handle].alive
    /\ call.key \notin DOMAIN app_windows
    /\ DOMAIN app_windows # {}

----------------------------------------------------------------------------
(* Claims about background mode *)

\* the invocation activated the application and the main window was not
\* presented
Suppressed == Invoked /\ "activate" \in Calls /\ "window.present" \notin Calls

\* the invocation made the game lookup: a slug and no service
LookedUp == call.input.game_slug # "" /\ call.input.service = ""

\* C23, as claimed: presentation of the main window is suppressed only by
\* an invocation whose action at the lookup is rungame or rungameid, never
\* by one whose action there is install, write-script or undetermined.
C23_BackgroundOnlyForRun ==
    Suppressed => LookupAction \in {"rungame", "rungameid"}

\* C23, amended: presentation of the main window is suppressed only by an
\* invocation that makes the lookup with action rungame, rungameid or
\* install, and an install lookup does suppress it; an invocation whose
\* action at the lookup is write-script or undetermined, or which makes no
\* lookup, never suppresses it.
C23_BackgroundOnlyForLookedUpAction ==
    /\ Suppressed
       => (LookedUp /\ LookupAction \in {"rungame", "rungameid", "install"})
    /\ (Invoked /\ "activate" \in Calls /\ LookedUp /\ LookupAction = "install")
       => "window.present" \notin Calls
    /\ (Invoked /\ "activate" \in Calls
        /\ (LookupAction \in {"write-script", ""} \/ ~LookedUp))
       => ("window.present" \in Calls /\ window_visible)

\* an install URI was handled before the main window was ever shown: the
\* window was built and not presented
C23_Witness ==
    /\ Suppressed
    /\ call.input.flags = {}
    /\ call.input.action = "install"
    /\ "get_game_by_field slug" \in Calls
    /\ "LutrisWindow" \in Calls
    /\ window /\ ~window_visible

\* C24: a destroy notification removes an entry of app_windows only when
\* the instance stored under the key is the instance being destroyed: the
\* entry of a newer live instance of the same class and key survives a
\* late or repeated notification of an earlier instance.
C24_RemovesOnlyOwnEntry ==
    [][(call'.op = "on_app_window_destroyed" /\ app_windows' # app_windows)
       => app_windows[call'.key] = call'.handle]_vars

====
